---- MODULE Spec2Model ----
(***************************************************************************)
(* The seven codecs of simple-encode (src/src/lib.rs): Base16, Base32,     *)
(* Base36, Base58, Base62, Base64 and Base91.  Every codec is a pair of    *)
(* pure functions; each is an operator here, computed the way the code     *)
(* computes it, and the state machine applies encode to a byte sequence    *)
(* and decode to the string produced, or decode to a string of the caller.      *)
(*                                                                         *)
(* Characters are one-character strings, a string is a sequence of them.   *)
(* The fixed-width unsigned integers of the code (u32 buffers, u128        *)
(* accumulators) are little-endian sequences of 8-bit limbs, so that the   *)
(* width the code computes in is the width the model computes in.          *)
(***************************************************************************)
EXTENDS Integers, Sequences, FiniteSets, TLC

VARIABLES
  overflow_checks,  \* the build: TRUE when arithmetic overflow panics (debug profile)
  mode,             \* "bytes": encode then decode; "text": decode a string of the caller
  bytes,            \* the byte sequence given to encode
  text,             \* the string given to decode
  scheme,           \* the codec in use, "none" before the first call
  pc,               \* "start", "encoded", "decoded"
  enc,              \* what encode returned
  dec               \* what decode returned

vars == <<overflow_checks, mode, bytes, text, scheme, pc, enc, dec>>

(***************************************************************************)
(* Bounds of the checked inputs.                                           *)
(***************************************************************************)
MaxHead == 2
MaxPad == 15
MaxTail == 2
StrPad == 25

(***************************************************************************)
(* Widths of the code's integers, in bytes.                                *)
(***************************************************************************)
AccBytes == 16
BufBytes == 4

(***************************************************************************)
(* The alphabets.                                                          *)
(***************************************************************************)
\* The grave accent of BASE91_ALPHABET, which a string literal cannot hold.
BACKTICK == "U+0060"

BASE32_ALPHABET ==
  <<
    "A", "B", "C", "D", "E", "F", "G", "H", "I", "J", "K", "L", "M", "N", "O", "P",
    "Q", "R", "S", "T", "U", "V", "W", "X", "Y", "Z", "2", "3", "4", "5", "6", "7"
  >>

BASE36_ALPHABET ==
  <<
    "0", "1", "2", "3", "4", "5", "6", "7", "8", "9", "a", "b", "c", "d", "e", "f",
    "g", "h", "i", "j", "k", "l", "m", "n", "o", "p", "q", "r", "s", "t", "u", "v",
    "w", "x", "y", "z"
  >>

BASE58_ALPHABET ==
  <<
    "1", "2", "3", "4", "5", "6", "7", "8", "9", "A", "B", "C", "D", "E", "F", "G",
    "H", "J", "K", "L", "M", "N", "P", "Q", "R", "S", "T", "U", "V", "W", "X", "Y",
    "Z", "a", "b", "c", "d", "e", "f", "g", "h", "i", "j", "k", "m", "n", "o", "p",
    "q", "r", "s", "t", "u", "v", "w", "x", "y", "z"
  >>

BASE62_ALPHABET ==
  <<
    "0", "1", "2", "3", "4", "5", "6", "7", "8", "9", "A", "B", "C", "D", "E", "F",
    "G", "H", "I", "J", "K", "L", "M", "N", "O", "P", "Q", "R", "S", "T", "U", "V",
    "W", "X", "Y", "Z", "a", "b", "c", "d", "e", "f", "g", "h", "i", "j", "k", "l",
    "m", "n", "o", "p", "q", "r", "s", "t", "u", "v", "w", "x", "y", "z"
  >>

BASE64_ALPHABET ==
  <<
    "A", "B", "C", "D", "E", "F", "G", "H", "I", "J", "K", "L", "M", "N", "O", "P",
    "Q", "R", "S", "T", "U", "V", "W", "X", "Y", "Z", "a", "b", "c", "d", "e", "f",
    "g", "h", "i", "j", "k", "l", "m", "n", "o", "p", "q", "r", "s", "t", "u", "v",
    "w", "x", "y", "z", "0", "1", "2", "3", "4", "5", "6", "7", "8", "9", "+", "/"
  >>

BASE91_ALPHABET ==
  <<
    "A", "B", "C", "D", "E", "F", "G", "H", "I", "J", "K", "L", "M", "N", "O", "P",
    "Q", "R", "S", "T", "U", "V", "W", "X", "Y", "Z", "a", "b", "c", "d", "e", "f",
    "g", "h", "i", "j", "k", "l", "m", "n", "o", "p", "q", "r", "s", "t", "u", "v",
    "w", "x", "y", "z", "0", "1", "2", "3", "4", "5", "6", "7", "8", "9", "!", "#",
    "$", "%", "&", "(", ")", "*", "+", ",", ".", "/", ":", ";", "<", "=", ">", "?",
    "@", "[", "]", "^", "_", BACKTICK, "{", "|", "}", "~", "\""
  >>

PAD_CHAR == "="

\* str::find(c): the index of c in the alphabet, when it is there.
InAlphabet(alphabet, c) == \E i \in 1..Len(alphabet) : alphabet[i] = c

Find(alphabet, c) == (CHOOSE i \in 1..Len(alphabet) : alphabet[i] = c) - 1

\* chars().nth(index): None at or beyond the length of the alphabet.
Nth(alphabet, index) ==
  IF index < Len(alphabet)
    THEN [some |-> TRUE, v |-> alphabet[index + 1]]
    ELSE [some |-> FALSE, v |-> ""]

RECURSIVE Reverse(_)
Reverse(s) == IF s = <<>> THEN <<>> ELSE Append(Reverse(Tail(s)), Head(s))

RECURSIVE Pow2(_)
Pow2(k) == IF k = 0 THEN 1 ELSE 2 * Pow2(k - 1)

(***************************************************************************)
(* Fixed-width unsigned integers: n[1] is the least significant limb.      *)
(***************************************************************************)
Zero(w) == [i \in 1..w |-> 0]

IsZero(n) == \A i \in 1..Len(n) : n[i] = 0

\* n * m + a in the width of n: the wrapped value, and whether it overflowed.
RECURSIVE MulAddRec(_, _, _, _, _)
MulAddRec(n, m, carry, i, acc) ==
  IF i > Len(n)
    THEN [val |-> acc, ovf |-> carry > 0]
    ELSE MulAddRec(n, m, (n[i] * m + carry) \div 256, i + 1,
                   Append(acc, (n[i] * m + carry) % 256))

MulAdd(n, m, a) == MulAddRec(n, m, a, 1, <<>>)

\* n / d and n % d for a small divisor d.
RECURSIVE DivModRec(_, _, _, _, _)
DivModRec(n, d, i, r, acc) ==
  IF i = 0
    THEN [quot |-> acc, rem |-> r]
    ELSE DivModRec(n, d, i - 1, (r * 256 + n[i]) % d,
                   <<(r * 256 + n[i]) \div d>> \o acc)

DivMod(n, d) == DivModRec(n, d, Len(n), 0, <<>>)

\* (n << 8) | byte: the top limb is shifted out, never a panic.
Shl8Or(n, byte) == <<byte>> \o SubSeq(n, 1, Len(n) - 1)

\* n >> 8
Shr8(n) == SubSeq(n, 2, Len(n)) \o <<0>>

\* n << k and n >> k for k below 8: shifts wrap silently in every build.
Shl(n, k) == MulAdd(n, Pow2(k), 0).val

Shr(n, k) == DivMod(n, Pow2(k)).quot

\* n & (2^k - 1) for k at most 8, as a small integer.
LowBits(n, k) == n[1] % Pow2(k)

(***************************************************************************)
(* What a call returns.  tag is "Ok", "Err" or "Panic"; kind is the error  *)
(* type behind an Err.  The remaining fields record what the call computed *)
(* on the way: the alphabet indices looked up (idx), the accumulator after *)
(* the input loop (num), whether an arithmetic step exceeded the width     *)
(* (ovf), and Base91's bits per character pair (widths).                   *)
(***************************************************************************)
EncResult(tag, kind, val, idx, num, ovf, widths) ==
  [tag |-> tag, kind |-> kind, val |-> val, idx |-> idx, num |-> num,
   ovf |-> ovf, widths |-> widths]

DecResult(tag, kind, val, ovf, widths) ==
  [tag |-> tag, kind |-> kind, val |-> val, ovf |-> ovf, widths |-> widths]

NoResult == [tag |-> "none"]

(***************************************************************************)
(* Base36, Base58, Base62: one big integer in a u128.                      *)
(***************************************************************************)

\* for byte in input { num = (num << 8) | byte }
RECURSIVE AccumulateShift(_, _, _)
AccumulateShift(input, i, st) ==
  IF i > Len(input)
    THEN st
    ELSE AccumulateShift(input, i + 1,
           [num |-> Shl8Or(st.num, input[i]),
            ovf |-> st.ovf \/ st.num[Len(st.num)] # 0,
            panic |-> FALSE])

\* for byte in input { num = num * 256 + byte }: panics on overflow when the
\* build checks overflow, wraps otherwise.
RECURSIVE AccumulateMul(_, _, _, _)
AccumulateMul(input, checks, i, st) ==
  IF i > Len(input)
    THEN st
    ELSE LET r == MulAdd(st.num, 256, input[i])
         IN IF r.ovf /\ checks
              THEN [num |-> st.num, ovf |-> TRUE, panic |-> TRUE]
              ELSE AccumulateMul(input, checks, i + 1,
                     [num |-> r.val, ovf |-> st.ovf \/ r.ovf, panic |-> FALSE])

\* Mutant: the accumulator is a u64.
AccStart_u64 == [num |-> Zero(AccBytes \div 2), ovf |-> FALSE, panic |-> FALSE]

AccStart == [num |-> Zero(AccBytes), ovf |-> FALSE, panic |-> FALSE]

\* while num > 0 { remainder = num % radix; num /= radix; push alphabet[remainder] }
\* The digits come out least significant first; failed is set by a lookup
\* beyond the alphabet.
RECURSIVE ToDigits(_, _, _, _)
ToDigits(num, alphabet, radix, st) ==
  IF IsZero(num)
    THEN st
    ELSE LET r == DivMod(num, radix)
             value == Nth(alphabet, r.rem)
         IN IF ~value.some
              THEN [encoded |-> st.encoded, idx |-> Append(st.idx, r.rem),
                    failed |-> TRUE]
              ELSE ToDigits(r.quot, alphabet, radix,
                     [encoded |-> Append(st.encoded, value.v),
                      idx |-> Append(st.idx, r.rem), failed |-> FALSE])

DigitsStart == [encoded |-> <<>>, idx |-> <<>>, failed |-> FALSE]

\* for x in seq { if x == z { count } else { break } }
RECURSIVE LeadingCount(_, _)
LeadingCount(seq, z) ==
  IF seq = <<>> \/ Head(seq) # z THEN 0 ELSE 1 + LeadingCount(Tail(seq), z)

Repeat(x, k) == [i \in 1..k |-> x]

Base36_encode(input) ==
  LET acc == AccumulateShift(input, 1, AccStart)
      dig == ToDigits(acc.num, BASE36_ALPHABET, 36, DigitsStart)
  IN IF dig.failed
       THEN EncResult("Err", "DecodeError", <<>>, dig.idx, acc.num, acc.ovf, <<>>)
       ELSE EncResult("Ok", "", 
                      Reverse(IF dig.encoded = <<>> THEN <<"0">> ELSE dig.encoded),
                      dig.idx, acc.num, acc.ovf, <<>>)

BigEncode(input, checks, alphabet, radix) ==
  LET acc == AccumulateMul(input, checks, 1, AccStart)
      dig == ToDigits(acc.num, alphabet, radix, DigitsStart)
  IN IF acc.panic
       THEN EncResult("Panic", "", <<>>, <<>>, acc.num, acc.ovf, <<>>)
       ELSE IF dig.failed
         THEN EncResult("Err", "DecodeError", <<>>, dig.idx, acc.num, acc.ovf, <<>>)
         ELSE EncResult("Ok", "",
                        Reverse(dig.encoded \o Repeat(alphabet[1], LeadingCount(input, 0))),
                        dig.idx, acc.num, acc.ovf, <<>>)

Base58_encode(input, checks) == BigEncode(input, checks, BASE58_ALPHABET, 58)

Base62_encode(input, checks) == BigEncode(input, checks, BASE62_ALPHABET, 62)

\* for c in input.chars() { index = find(c) or return Err; num = num * radix + index }
RECURSIVE ParseDigits(_, _, _, _, _, _)
ParseDigits(input, alphabet, radix, checks, i, st) ==
  IF i > Len(input)
    THEN st
    ELSE IF ~InAlphabet(alphabet, input[i])
      THEN [num |-> st.num, ovf |-> st.ovf, end |-> "Err"]
      ELSE LET r == MulAdd(st.num, radix, Find(alphabet, input[i]))
           IN IF r.ovf /\ checks
                THEN [num |-> st.num, ovf |-> TRUE, end |-> "Panic"]
                ELSE ParseDigits(input, alphabet, radix, checks, i + 1,
                       [num |-> r.val, ovf |-> st.ovf \/ r.ovf, end |-> "Ok"])

ParseStart == [num |-> Zero(AccBytes), ovf |-> FALSE, end |-> "Ok"]

\* while num > 0 { push (num & 0xFF); num >>= 8 }
RECURSIVE ToBytesShift(_, _)
ToBytesShift(num, decoded) ==
  IF IsZero(num)
    THEN decoded
    ELSE ToBytesShift(Shr8(num), Append(decoded, LowBits(num, 8)))

\* while num > 0 { push (num % 256); num /= 256 }
RECURSIVE ToBytesDiv(_, _)
ToBytesDiv(num, decoded) ==
  IF IsZero(num)
    THEN decoded
    ELSE LET r == DivMod(num, 256)
         IN ToBytesDiv(r.quot, Append(decoded, r.rem))

Base36_decode(input, checks) ==
  LET p == ParseDigits(input, BASE36_ALPHABET, 36, checks, 1, ParseStart)
  IN CASE p.end = "Err" -> DecResult("Err", "DecodeError", <<>>, p.ovf, <<>>)
       [] p.end = "Panic" -> DecResult("Panic", "", <<>>, p.ovf, <<>>)
       [] OTHER -> DecResult("Ok", "", Reverse(ToBytesShift(p.num, <<>>)), p.ovf, <<>>)

BigDecode(input, checks, alphabet, radix) ==
  LET p == ParseDigits(input, alphabet, radix, checks, 1, ParseStart)
  IN CASE p.end = "Err" -> DecResult("Err", "DecodeError", <<>>, p.ovf, <<>>)
       [] p.end = "Panic" -> DecResult("Panic", "", <<>>, p.ovf, <<>>)
       [] OTHER ->
            DecResult("Ok", "",
                      Reverse(ToBytesDiv(p.num, <<>>)
                              \o Repeat(0, LeadingCount(input, alphabet[1]))),
                      p.ovf, <<>>)

Base58_decode(input, checks) == BigDecode(input, checks, BASE58_ALPHABET, 58)

Base62_decode(input, checks) == BigDecode(input, checks, BASE62_ALPHABET, 62)

(***************************************************************************)
(* Base32 and Base64: a sliding bit buffer in a u32.                       *)
(***************************************************************************)
BufStart ==
  [buffer |-> Zero(BufBytes), bits_left |-> 0, encoded |-> <<>>, idx |-> <<>>,
   failed |-> FALSE]

\* One lookup: push alphabet[index], or fail beyond the alphabet.
Emit(st, alphabet, index, bits_left) ==
  [buffer |-> st.buffer, bits_left |-> bits_left,
   encoded |-> IF Nth(alphabet, index).some
                 THEN Append(st.encoded, Nth(alphabet, index).v)
                 ELSE st.encoded,
   idx |-> Append(st.idx, index),
   failed |-> ~Nth(alphabet, index).some]

\* while bits_left >= g { bits_left -= g; index = (buffer >> bits_left) & mask; push }
RECURSIVE EmitGroups(_, _, _)
EmitGroups(st, alphabet, g) ==
  IF st.failed \/ st.bits_left < g
    THEN st
    ELSE EmitGroups(Emit(st, alphabet,
                         LowBits(Shr(st.buffer, st.bits_left - g), g),
                         st.bits_left - g),
                    alphabet, g)

\* for byte in input { buffer = (buffer << 8) | byte; bits_left += 8; while ... }
RECURSIVE PackBytes(_, _, _, _, _)
PackBytes(input, alphabet, g, i, st) ==
  IF st.failed \/ i > Len(input)
    THEN st
    ELSE PackBytes(input, alphabet, g, i + 1,
           EmitGroups([st EXCEPT !.buffer = Shl8Or(st.buffer, input[i]),
                                 !.bits_left = st.bits_left + 8],
                      alphabet, g))

\* if bits_left > 0 { index = (buffer << (g - bits_left)) & mask; push }
PackRest(st, alphabet, g) ==
  IF st.failed \/ st.bits_left = 0
    THEN st
    ELSE Emit(st, alphabet, LowBits(Shl(st.buffer, g - st.bits_left), g), st.bits_left)

\* Mutant: a single '=' is pushed.
PadTo_once(encoded, block) ==
  IF Len(encoded) % block = 0 THEN encoded ELSE Append(encoded, PAD_CHAR)

\* while encoded.len() % block != 0 { push '=' }
RECURSIVE PadTo(_, _)
PadTo(encoded, block) ==
  IF Len(encoded) % block = 0 THEN encoded ELSE PadTo(Append(encoded, PAD_CHAR), block)

BitEncode(input, alphabet, g, block) ==
  LET st == PackRest(PackBytes(input, alphabet, g, 1, BufStart), alphabet, g)
  IN IF st.failed
       THEN EncResult("Err", "DecodeError", <<>>, st.idx, <<>>, FALSE, <<>>)
       ELSE EncResult("Ok", "", PadTo(st.encoded, block), st.idx, <<>>, FALSE, <<>>)

Base32_encode(input) == BitEncode(input, BASE32_ALPHABET, 5, 8)

Base64_encode(input) == BitEncode(input, BASE64_ALPHABET, 6, 4)

UnpackStart ==
  [buffer |-> Zero(BufBytes), bits_left |-> 0, decoded |-> <<>>, end |-> "Ok"]

\* Mutant: bits_left > 8 where the code has bits_left >= 8.
UnpackChar_gt8(st, index, g) ==
  LET buffer == MulAdd(st.buffer, Pow2(g), index).val
      bits_left == st.bits_left + g
  IN IF bits_left > 8
       THEN [buffer |-> buffer, bits_left |-> bits_left - 8,
             decoded |-> Append(st.decoded, LowBits(Shr(buffer, bits_left - 8), 8)),
             end |-> "Ok"]
       ELSE [buffer |-> buffer, bits_left |-> bits_left,
             decoded |-> st.decoded, end |-> "Ok"]

\* buffer = (buffer << g) | index; bits_left += g;
\* if bits_left >= 8 { bits_left -= 8; push (buffer >> bits_left) as u8 }
\* The g low bits are zero after the shift, so the or is the addition.
UnpackChar(st, index, g) ==
  LET buffer == MulAdd(st.buffer, Pow2(g), index).val
      bits_left == st.bits_left + g
  IN IF bits_left >= 8
       THEN [buffer |-> buffer, bits_left |-> bits_left - 8,
             decoded |-> Append(st.decoded, LowBits(Shr(buffer, bits_left - 8), 8)),
             end |-> "Ok"]
       ELSE [buffer |-> buffer, bits_left |-> bits_left,
             decoded |-> st.decoded, end |-> "Ok"]

\* Mutant: no break at '=', which is then a character outside the alphabet.
RECURSIVE UnpackChars_nobreak(_, _, _, _, _)
UnpackChars_nobreak(input, alphabet, g, i, st) ==
  IF i > Len(input)
    THEN st
    ELSE IF ~InAlphabet(alphabet, input[i])
      THEN [st EXCEPT !.end = "Err"]
      ELSE UnpackChars_nobreak(input, alphabet, g, i + 1,
                               UnpackChar(st, Find(alphabet, input[i]), g))

\* for c in input.chars() { if c == '=' { break }; index = find(c) or return Err; ... }
RECURSIVE UnpackChars(_, _, _, _, _)
UnpackChars(input, alphabet, g, i, st) ==
  IF i > Len(input) \/ input[i] = PAD_CHAR
    THEN st
    ELSE IF ~InAlphabet(alphabet, input[i])
      THEN [st EXCEPT !.end = "Err"]
      ELSE UnpackChars(input, alphabet, g, i + 1,
                       UnpackChar(st, Find(alphabet, input[i]), g))

BitDecode(input, alphabet, g) ==
  LET st == UnpackChars(input, alphabet, g, 1, UnpackStart)
  IN IF st.end = "Err"
       THEN DecResult("Err", "DecodeError", <<>>, FALSE, <<>>)
       ELSE DecResult("Ok", "", st.decoded, FALSE, <<>>)

Base32_decode(input) == BitDecode(input, BASE32_ALPHABET, 5)

Base64_decode(input) == BitDecode(input, BASE64_ALPHABET, 6)

(***************************************************************************)
(* Base16.  decode works on the UTF-8 bytes of its input: input.len() is   *)
(* a byte count and &input[i..i + 2] a byte slice, which panics when it    *)
(* cuts a character.  TWO_BYTE_CHAR stands for a character of two bytes.   *)
(***************************************************************************)
HEX_LOWER ==
  <<"0", "1", "2", "3", "4", "5", "6", "7", "8", "9", "a", "b", "c", "d", "e", "f">>

HEX_UPPER ==
  <<"0", "1", "2", "3", "4", "5", "6", "7", "8", "9", "A", "B", "C", "D", "E", "F">>

TWO_BYTE_CHAR == "U+00E9"

LEAD_UNIT == "0xC3"

CONT_UNIT == "0xA9"

\* format!("{:02x}", byte)
Format02x(byte) == <<HEX_LOWER[(byte \div 16) + 1], HEX_LOWER[(byte % 16) + 1]>>

RECURSIVE Base16EncodeRec(_)
Base16EncodeRec(input) ==
  IF input = <<>> THEN <<>> ELSE Format02x(Head(input)) \o Base16EncodeRec(Tail(input))

Base16_encode(input) ==
  EncResult("Ok", "", Base16EncodeRec(input), <<>>, <<>>, FALSE, <<>>)

\* The UTF-8 bytes of a string, one unit per byte.
RECURSIVE Utf8(_)
Utf8(s) ==
  IF s = <<>> THEN <<>>
  ELSE (IF Head(s) = TWO_BYTE_CHAR THEN <<LEAD_UNIT, CONT_UNIT>> ELSE <<Head(s)>>)
       \o Utf8(Tail(s))

\* str::is_char_boundary(k), k a byte offset from 0.
IsCharBoundary(units, k) == k = 0 \/ k = Len(units) \/ units[k + 1] # CONT_UNIT

\* The characters of a byte slice that cuts no character.
RECURSIVE FromUtf8(_)
FromUtf8(units) ==
  IF units = <<>> THEN <<>>
  ELSE IF Head(units) = LEAD_UNIT
    THEN <<TWO_BYTE_CHAR>> \o FromUtf8(Tail(Tail(units)))
    ELSE <<Head(units)>> \o FromUtf8(Tail(units))

\* char::to_digit(16)
IsHexDigit(c) == InAlphabet(HEX_LOWER, c) \/ InAlphabet(HEX_UPPER, c)

ToDigit16(c) == IF InAlphabet(HEX_LOWER, c) THEN Find(HEX_LOWER, c) ELSE Find(HEX_UPPER, c)

RECURSIVE DigitsValue(_, _)
DigitsValue(digits, result) ==
  IF digits = <<>> THEN result
  ELSE DigitsValue(Tail(digits), result * 16 + ToDigit16(Head(digits)))

\* u8::from_str_radix(src, 16) of the standard library: a lone sign is an
\* error, one leading '+' is accepted, every other character must be a digit.
\* Two digits never exceed a u8.
FromStrRadix16(src) ==
  LET digits == IF Head(src) = "+" THEN Tail(src) ELSE src
  IN IF src = <<"+">> \/ src = <<"-">> \/ \E i \in 1..Len(digits) : ~IsHexDigit(digits[i])
       THEN [ok |-> FALSE, v |-> 0]
       ELSE [ok |-> TRUE, v |-> DigitsValue(digits, 0)]

\* for i in (0..input.len()).step_by(2) { value = from_str_radix(&input[i..i + 2], 16)?; push }
RECURSIVE Base16Chunks(_, _, _)
Base16Chunks(units, i, ret) ==
  IF i >= Len(units)
    THEN DecResult("Ok", "", ret, FALSE, <<>>)
    ELSE IF ~(IsCharBoundary(units, i) /\ IsCharBoundary(units, i + 2))
      THEN DecResult("Panic", "", <<>>, FALSE, <<>>)
      ELSE IF ~FromStrRadix16(FromUtf8(SubSeq(units, i + 1, i + 2))).ok
        THEN DecResult("Err", "ParseIntError", <<>>, FALSE, <<>>)
        ELSE Base16Chunks(units, i + 2,
               Append(ret, FromStrRadix16(FromUtf8(SubSeq(units, i + 1, i + 2))).v))

Base16_decode(input) ==
  IF Len(Utf8(input)) % 2 # 0
    THEN DecResult("Err", "DecodeError", <<>>, FALSE, <<>>)
    ELSE Base16Chunks(Utf8(input), 0, <<>>)

(***************************************************************************)
(* Base91.  b stays below 2^22 in encode and in decode, far from the u32   *)
(* and i32 widths, so the integers here are those of the code.                    *)
(***************************************************************************)
RECURSIVE BitOr(_, _)
BitOr(x, y) ==
  IF x = 0 THEN y
  ELSE IF y = 0 THEN x
  ELSE (IF x % 2 = 1 \/ y % 2 = 1 THEN 1 ELSE 0) + 2 * BitOr(x \div 2, y \div 2)

Enc91Start ==
  [b |-> 0, n |-> 0, encoded |-> <<>>, idx |-> <<>>, widths |-> <<>>, failed |-> FALSE]

\* Two lookups for v: alphabet[v % 91], then alphabet[v / 91].
Emit91(st, v, b, n, width) ==
  IF ~Nth(BASE91_ALPHABET, v % 91).some
    THEN [st EXCEPT !.idx = Append(st.idx, v % 91), !.failed = TRUE]
    ELSE IF ~Nth(BASE91_ALPHABET, v \div 91).some
      THEN [st EXCEPT !.idx = st.idx \o <<v % 91, v \div 91>>, !.failed = TRUE]
      ELSE [b |-> b, n |-> n,
            encoded |-> st.encoded \o <<Nth(BASE91_ALPHABET, v % 91).v,
                                        Nth(BASE91_ALPHABET, v \div 91).v>>,
            idx |-> st.idx \o <<v % 91, v \div 91>>,
            widths |-> Append(st.widths, width),
            failed |-> FALSE]

\* b |= byte << n; n += 8;
\* if n > 13 { v = b & 8191; if v > 88 { 13 bits } else { v = b & 16383; 14 bits }; push two }
Enc91Byte(st, byte) ==
  LET b == BitOr(st.b, byte * Pow2(st.n))
      n == st.n + 8
  IN IF n > 13
       THEN IF b % 8192 > 88
              THEN Emit91(st, b % 8192, b \div 8192, n - 13, 13)
              ELSE Emit91(st, b % 16384, b \div 16384, n - 14, 14)
       ELSE [st EXCEPT !.b = b, !.n = n]

RECURSIVE Enc91Bytes(_, _, _)
Enc91Bytes(input, i, st) ==
  IF st.failed \/ i > Len(input)
    THEN st
    ELSE Enc91Bytes(input, i + 1, Enc91Byte(st, input[i]))

\* Mutant: the second character is pushed only when n > 7.
Enc91Rest_n7(st) ==
  IF st.failed \/ st.n = 0
    THEN st
    ELSE IF ~(st.n > 7)
      THEN [st EXCEPT !.encoded = Append(st.encoded, Nth(BASE91_ALPHABET, st.b % 91).v),
                      !.idx = Append(st.idx, st.b % 91)]
      ELSE [st EXCEPT !.encoded = st.encoded \o <<Nth(BASE91_ALPHABET, st.b % 91).v,
                                                  Nth(BASE91_ALPHABET, st.b \div 91).v>>,
                      !.idx = st.idx \o <<st.b % 91, st.b \div 91>>]

\* if n > 0 { push alphabet[b % 91]; if n > 7 || b > 90 { push alphabet[b / 91] } }
Enc91Rest(st) ==
  IF st.failed \/ st.n = 0
    THEN st
    ELSE IF ~Nth(BASE91_ALPHABET, st.b % 91).some
      THEN [st EXCEPT !.idx = Append(st.idx, st.b % 91), !.failed = TRUE]
      ELSE IF ~(st.n > 7 \/ st.b > 90)
        THEN [st EXCEPT !.encoded = Append(st.encoded, Nth(BASE91_ALPHABET, st.b % 91).v),
                        !.idx = Append(st.idx, st.b % 91)]
        ELSE IF ~Nth(BASE91_ALPHABET, st.b \div 91).some
          THEN [st EXCEPT !.idx = st.idx \o <<st.b % 91, st.b \div 91>>, !.failed = TRUE]
          ELSE [st EXCEPT !.encoded = st.encoded \o <<Nth(BASE91_ALPHABET, st.b % 91).v,
                                                      Nth(BASE91_ALPHABET, st.b \div 91).v>>,
                          !.idx = st.idx \o <<st.b % 91, st.b \div 91>>]

Base91_encode(input) ==
  LET st == Enc91Rest(Enc91Bytes(input, 1, Enc91Start))
  IN IF st.failed
       THEN EncResult("Err", "DecodeError", <<>>, st.idx, <<>>, FALSE, <<>>)
       ELSE EncResult("Ok", "", st.encoded, st.idx, <<>>, FALSE, st.widths)

Dec91Start ==
  [b |-> 0, n |-> 0, v |-> -1, decoded |-> <<>>, widths |-> <<>>, end |-> "Ok"]

\* while n > 7 { push (b & 255); b >>= 8; n -= 8 }
RECURSIVE Dec91Drain(_)
Dec91Drain(st) ==
  IF st.n > 7
    THEN Dec91Drain([st EXCEPT !.decoded = Append(st.decoded, st.b % 256),
                               !.b = st.b \div 256, !.n = st.n - 8])
    ELSE st

\* if v < 0 { v = d } else { v += d * 91; b |= v << n;
\*   n += if (v & 8191) > 88 { 13 } else { 14 }; while ...; v = -1 }
Dec91Char(st, d) ==
  IF st.v < 0
    THEN [st EXCEPT !.v = d]
    ELSE LET v == st.v + d * 91
             width == IF v % 8192 > 88 THEN 13 ELSE 14
         IN Dec91Drain([st EXCEPT !.b = BitOr(st.b, v * Pow2(st.n)),
                                  !.n = st.n + width,
                                  !.widths = Append(st.widths, width),
                                  !.v = -1])

\* Mutant: a character outside the alphabet is skipped.
RECURSIVE Dec91Chars_skip(_, _, _)
Dec91Chars_skip(input, i, st) ==
  IF i > Len(input)
    THEN st
    ELSE IF ~InAlphabet(BASE91_ALPHABET, input[i])
      THEN Dec91Chars_skip(input, i + 1, st)
      ELSE Dec91Chars_skip(input, i + 1, Dec91Char(st, Find(BASE91_ALPHABET, input[i])))

RECURSIVE Dec91Chars(_, _, _)
Dec91Chars(input, i, st) ==
  IF i > Len(input)
    THEN st
    ELSE IF ~InAlphabet(BASE91_ALPHABET, input[i])
      THEN [st EXCEPT !.end = "Err"]
      ELSE Dec91Chars(input, i + 1, Dec91Char(st, Find(BASE91_ALPHABET, input[i])))

\* if v + 1 > 0 { push ((b | v << n) & 255) }
Dec91Rest(st) ==
  IF st.end = "Ok" /\ st.v + 1 > 0
    THEN [st EXCEPT !.decoded = Append(st.decoded, BitOr(st.b, st.v * Pow2(st.n)) % 256)]
    ELSE st

Base91_decode(input) ==
  LET st == Dec91Rest(Dec91Chars(input, 1, Dec91Start))
  IN IF st.end = "Err"
       THEN DecResult("Err", "DecodeError", <<>>, FALSE, <<>>)
       ELSE DecResult("Ok", "", st.decoded, FALSE, st.widths)

(***************************************************************************)
(* The inputs checked.  A byte sequence is a short head of chosen bytes    *)
(* followed by a run of one fill byte; a string is a run of one fill       *)
(* character followed by a short tail of chosen characters.                *)
(***************************************************************************)
ByteVals == {0, 89, 255}

FillBytes == {0, 255}

CharVals == {"0", "7", "A", "f", "z", "+", "=", "-", TWO_BYTE_CHAR}

FillChars == {"7", "z"}

SeqsUpTo(S, n) == UNION {[1..k -> S] : k \in 0..n}

ByteInputs ==
  {h \o Repeat(f, k) : h \in SeqsUpTo(ByteVals, MaxHead), f \in FillBytes, k \in 0..MaxPad}

TextInputs ==
  {Repeat(f, k) \o t : t \in SeqsUpTo(CharVals, MaxTail), f \in FillChars, k \in {0, StrPad}}

(***************************************************************************)
(* The state machine: one action per public function.                      *)
(***************************************************************************)
Init ==
  /\ overflow_checks \in BOOLEAN
  /\ \/ mode = "bytes" /\ bytes \in ByteInputs /\ text = <<>>
     \/ mode = "text" /\ bytes = <<>> /\ text \in TextInputs
  /\ scheme = "none"
  /\ pc = "start"
  /\ enc = NoResult
  /\ dec = NoResult

Encode(s, r) ==
  /\ pc = "start"
  /\ mode = "bytes"
  /\ scheme' = s
  /\ enc' = r
  /\ text' = IF r.tag = "Ok" THEN r.val ELSE text
  /\ pc' = "encoded"
  /\ UNCHANGED <<overflow_checks, mode, bytes, dec>>

\* decode is given the string of the caller, or the string encode returned.
DecodeReady(s) ==
  \/ pc = "start" /\ mode = "text"
  \/ pc = "encoded" /\ scheme = s /\ enc.tag = "Ok"

Decode(s, r) ==
  /\ DecodeReady(s)
  /\ scheme' = s
  /\ dec' = r
  /\ pc' = "decoded"
  /\ UNCHANGED <<overflow_checks, mode, bytes, text, enc>>

Base16Encode == Encode("Base16", Base16_encode(bytes))
Base16Decode == Decode("Base16", Base16_decode(text))
Base32Encode == Encode("Base32", Base32_encode(bytes))
Base32Decode == Decode("Base32", Base32_decode(text))
Base36Encode == Encode("Base36", Base36_encode(bytes))
Base36Decode == Decode("Base36", Base36_decode(text, overflow_checks))
Base58Encode == Encode("Base58", Base58_encode(bytes, overflow_checks))
Base58Decode == Decode("Base58", Base58_decode(text, overflow_checks))
Base62Encode == Encode("Base62", Base62_encode(bytes, overflow_checks))
Base62Decode == Decode("Base62", Base62_decode(text, overflow_checks))
Base64Encode == Encode("Base64", Base64_encode(bytes))
Base64Decode == Decode("Base64", Base64_decode(text))
Base91Encode == Encode("Base91", Base91_encode(bytes))
Base91Decode == Decode("Base91", Base91_decode(text))

Next ==
  \/ Base16Encode \/ Base16Decode
  \/ Base32Encode \/ Base32Decode
  \/ Base36Encode \/ Base36Decode
  \/ Base58Encode \/ Base58Decode
  \/ Base62Encode \/ Base62Decode
  \/ Base64Encode \/ Base64Decode
  \/ Base91Encode \/ Base91Decode

Spec == Init /\ [][Next]_vars

(***************************************************************************)
(* The properties checked.                                                 *)
(***************************************************************************)
BitSchemes == {"Base16", "Base32", "Base64"}

BigSchemes == {"Base36", "Base58", "Base62"}

PaddedSchemes == {"Base32", "Base64"}

Alphabet(s) ==
  CASE s = "Base16" -> HEX_LOWER
    [] s = "Base32" -> BASE32_ALPHABET
    [] s = "Base36" -> BASE36_ALPHABET
    [] s = "Base58" -> BASE58_ALPHABET
    [] s = "Base62" -> BASE62_ALPHABET
    [] s = "Base64" -> BASE64_ALPHABET
    [] s = "Base91" -> BASE91_ALPHABET

\* Bits per character and characters per padded block of Base32 and Base64,
\* and the input bytes that fill a block.
GroupBits(s) == IF s = "Base32" THEN 5 ELSE 6

BlockChars(s) == IF s = "Base32" THEN 8 ELSE 4

BlockBytes(s) == IF s = "Base32" THEN 5 ELSE 3

\* encode of scheme s has returned for the byte sequence bytes.
Encoded(s) == mode = "bytes" /\ scheme = s /\ pc \in {"encoded", "decoded"}

\* decode of scheme s has returned for the string encode produced.
RoundTripped(s) == mode = "bytes" /\ scheme = s /\ pc = "decoded"

\* decode of scheme s has returned for a string of the caller.
DecodedText(s) == mode = "text" /\ scheme = s /\ pc = "decoded"

IsDecodeError(r) == r.tag = "Err" /\ r.kind = "DecodeError" /\ r.val = <<>>

StripLeadingZeros(b) == SubSeq(b, LeadingCount(b, 0) + 1, Len(b))

\* The first position of the string holding '=', or one past its end.
FirstPad(s) ==
  IF \E i \in 1..Len(s) : s[i] = PAD_CHAR
    THEN CHOOSE i \in 1..Len(s) : s[i] = PAD_CHAR /\ \A j \in 1..(i - 1) : s[j] # PAD_CHAR
    ELSE Len(s) + 1

DataChars(s) == SubSeq(s, 1, FirstPad(s) - 1)

\* Bit p (from 0) of the MSB-first concatenation of the g-bit values of data.
BitAt(data, alphabet, g, p) ==
  (Find(alphabet, data[(p \div g) + 1]) \div Pow2(g - 1 - (p % g))) % 2

\* Byte i (from 1) of that concatenation.
RECURSIVE BitsValue(_, _, _, _, _)
BitsValue(data, alphabet, g, p, count) ==
  IF count = 0 THEN 0
  ELSE BitAt(data, alphabet, g, p) * Pow2(count - 1)
       + BitsValue(data, alphabet, g, p + 1, count - 1)

ByteAt(data, alphabet, g, i) == BitsValue(data, alphabet, g, 8 * (i - 1), 8)

PadCount(s) == Cardinality({i \in 1..Len(s) : s[i] = PAD_CHAR})

\* The u128 holding exactly the big-endian value of b.
ExactValue(b) == [i \in 1..AccBytes |-> IF i <= Len(b) THEN b[Len(b) + 1 - i] ELSE 0]

\* C1: for every byte sequence b, Base58 and Base62 decode of encode(b)
\* returns exactly b, leading zero bytes included.
C1_RoundTripBase58Base62 ==
  \A s \in {"Base58", "Base62"} :
    RoundTripped(s) => dec.tag = "Ok" /\ dec.val = bytes

\* C2: for every byte sequence b, Base16, Base32 and Base64 encode succeeds
\* and decode of the result returns exactly b.
C2_RoundTripBitSchemes ==
  \A s \in BitSchemes :
    /\ Encoded(s) => enc.tag = "Ok"
    /\ RoundTripped(s) => dec.tag = "Ok" /\ dec.val = bytes

C2_Witness ==
  /\ RoundTripped("Base32")
  /\ Len(bytes) > 5
  /\ Len(bytes) % 5 # 0
  /\ bytes[1] = 89
  /\ bytes[Len(bytes)] = 255
  /\ PadCount(text) > 0
  /\ dec.val = bytes

\* C3: Base91 decode of encode(b) returns exactly b, and for every character
\* pair the encoder emitted inside its loop the decoder takes the number of
\* bits (13 or 14) the encoder took; the pair of the end-of-input rule is the
\* only one the decoder may add.
C3_RoundTripBase91 ==
  /\ Encoded("Base91") => enc.tag = "Ok"
  /\ RoundTripped("Base91") =>
       /\ dec.tag = "Ok"
       /\ dec.val = bytes
       /\ Len(enc.widths) <= Len(dec.widths)
       /\ Len(dec.widths) <= Len(enc.widths) + 1
       /\ SubSeq(dec.widths, 1, Len(enc.widths)) = enc.widths

C3_Witness ==
  /\ RoundTripped("Base91")
  /\ \E i \in 1..Len(enc.widths) : enc.widths[i] = 13
  /\ \E i \in 1..Len(enc.widths) : enc.widths[i] = 14
  /\ Len(dec.widths) = Len(enc.widths) + 1
  /\ dec.val = bytes

\* C4: for every byte sequence b, Base36 decode of encode(b) is b without its
\* leading zero bytes, and encode returns "0" when b is empty or all zero.
C4_RoundTripBase36 ==
  /\ Encoded("Base36") =>
       /\ enc.tag = "Ok"
       /\ (\A i \in 1..Len(bytes) : bytes[i] = 0) => enc.val = <<"0">>
  /\ RoundTripped("Base36") =>
       /\ dec.tag = "Ok"
       /\ dec.val = StripLeadingZeros(bytes)

\* A character decode of scheme s may not accept: outside the alphabet, and
\* for Base32 and Base64 not '=' either.
Foreign(s, c) == ~InAlphabet(Alphabet(s), c) /\ (s \in PaddedSchemes => c # PAD_CHAR)

CheckedSchemes == {"Base32", "Base36", "Base58", "Base62", "Base64", "Base91"}

C6_Base16Decode ==
  DecodedText("Base16") =>
    IF Len(Utf8(text)) % 2 # 0 \/ \E i \in 1..Len(text) : ~IsHexDigit(text[i])
      THEN dec.tag = "Err" /\ dec.val = <<>>
      ELSE /\ dec.tag = "Ok"
           /\ Len(dec.val) = Len(text) \div 2
           /\ \A i \in 1..Len(dec.val) :
                dec.val[i] = 16 * ToDigit16(text[2 * i - 1]) + ToDigit16(text[2 * i])

\* C7: every encode of every scheme succeeds, every alphabet index it computes
\* is below the length of the alphabet, and every character it returns is in
\* the alphabet or is the '=' of Base32 and Base64.
C7_EncodeSucceeds ==
  \A s \in BitSchemes \cup BigSchemes \cup {"Base91"} :
    Encoded(s) =>
      /\ enc.tag = "Ok"
      /\ \A i \in 1..Len(enc.idx) : enc.idx[i] < Len(Alphabet(s))
      /\ \A i \in 1..Len(enc.val) :
           \/ InAlphabet(Alphabet(s), enc.val[i])
           \/ s \in PaddedSchemes /\ enc.val[i] = PAD_CHAR

\* C8: the output of Base32 encode has a multiple of 8 characters and that of
\* Base64 encode a multiple of 4; the '=' are a suffix shorter than a block,
\* and there is none exactly when the input is a whole number of 5-byte
\* (Base32) or 3-byte (Base64) groups.
C8_Padding ==
  \A s \in PaddedSchemes :
    Encoded(s) =>
      /\ enc.tag = "Ok"
      /\ Len(enc.val) % BlockChars(s) = 0
      /\ bytes = <<>> => enc.val = <<>>
      /\ PadCount(enc.val) < BlockChars(s)
      /\ \A i \in 1..Len(enc.val) :
           enc.val[i] = PAD_CHAR <=> i > Len(enc.val) - PadCount(enc.val)
      /\ PadCount(enc.val) = 0 <=> Len(bytes) % BlockBytes(s) = 0

C8_Witness ==
  /\ Encoded("Base64")
  /\ Len(bytes) > 3
  /\ Len(bytes) % 3 = 1
  /\ bytes[1] = 89
  /\ bytes[Len(bytes)] = 255
  /\ PadCount(enc.val) = 2
  /\ enc.val[Len(enc.val)] = PAD_CHAR

\* C9: for an input of at most 16 bytes the u128 of Base36, Base58 and Base62
\* encode never overflows and holds exactly the big-endian value of the input,
\* and no step num * radix + digit of decode on the string produced overflows.
C9_NoOverflowUpTo16Bytes ==
  \A s \in BigSchemes :
    Len(bytes) <= AccBytes =>
      /\ Encoded(s) => enc.tag = "Ok" /\ ~enc.ovf /\ enc.num = ExactValue(bytes)
      /\ RoundTripped(s) => dec.tag = "Ok" /\ ~dec.ovf

C9_Witness ==
  /\ RoundTripped("Base58")
  /\ Len(bytes) = AccBytes
  /\ \A i \in 1..Len(bytes) : bytes[i] = 255
  /\ enc.num = ExactValue(bytes)
  /\ ~dec.ovf

\* C10: when the k characters before the first '=' are all in the alphabet,
\* Base32 (g = 5) and Base64 (g = 6) decode succeeds whatever follows the '='
\* and returns the first floor(k * g / 8) bytes of the MSB-first concatenation
\* of the g-bit values of those characters; the leftover bits are dropped.
C10_DecodeUpToPad ==
  \A s \in PaddedSchemes :
    (DecodedText(s) /\ \A i \in 1..Len(DataChars(text)) :
                          InAlphabet(Alphabet(s), DataChars(text)[i]))
      => /\ dec.tag = "Ok"
         /\ Len(dec.val) = (Len(DataChars(text)) * GroupBits(s)) \div 8
         /\ \A i \in 1..Len(dec.val) :
              dec.val[i] = ByteAt(DataChars(text), Alphabet(s), GroupBits(s), i)

\* Leftover bits that are not zero, and a foreign character after the '='.
C10_Witness ==
  /\ DecodedText("Base32")
  /\ Len(text) > StrPad
  /\ FirstPad(text) = Len(text) - 1
  /\ Foreign("Base32", text[Len(text)])
  /\ (Len(DataChars(text)) * 5) % 8 # 0
  /\ dec.tag = "Ok"
  /\ BitAt(DataChars(text), BASE32_ALPHABET, 5, Len(DataChars(text)) * 5 - 1) = 1
  /\ Len(dec.val) = (Len(DataChars(text)) * 5) \div 8

(***************************************************************************)
(* What remains true where C1, C4 and C7 fail: the failures need a value   *)
(* of 2^128 or more.                                                       *)
(***************************************************************************)
RoundTripWithinU128 ==
  /\ \A s \in {"Base58", "Base62"} :
       (RoundTripped(s) /\ ~enc.ovf) => dec.tag = "Ok" /\ dec.val = bytes
  /\ (RoundTripped("Base36") /\ ~enc.ovf) =>
       dec.tag = "Ok" /\ dec.val = StripLeadingZeros(bytes)

IndicesInRange ==
  \A s \in BitSchemes \cup BigSchemes \cup {"Base91"} :
    Encoded(s) =>
      /\ enc.tag \in {"Ok", "Panic"}
      /\ enc.tag = "Panic" => overflow_checks /\ enc.ovf /\ s \in {"Base58", "Base62"}
      /\ \A i \in 1..Len(enc.idx) : enc.idx[i] < Len(Alphabet(s))
      /\ \A i \in 1..Len(enc.val) :
           \/ InAlphabet(Alphabet(s), enc.val[i])
           \/ s \in PaddedSchemes /\ enc.val[i] = PAD_CHAR

====
